---------------------------- MODULE Spec2Model ----------------------------
(***************************************************************************)
(* A model of mkmovies.py: the temporal grouper (group_by_mtime), the      *)
(* movie assembler (assemble_movie with the sequential_links context       *)
(* manager) and the entry point (main).                                    *)
(*                                                                         *)
(* Strings that the program inspects (file names, link names, movie names) *)
(* are sequences of one-character strings.  Timestamps are integers        *)
(* counting ticks of 1/TicksPerSecond seconds.  External utilities         *)
(* (mktemp, ln, ls, ffmpeg, rm) are modelled by their exit status.         *)
(***************************************************************************)
EXTENDS Integers, Sequences, FiniteSets, TLC

VARIABLES
    pyver,      \* major version of the interpreter (2 or 3): decides round()
    entry,      \* the function the run entered: "group_by_mtime", "assemble_movie", "main"
    pc,         \* position of the single thread of control
    dirlist,    \* os.listdir('.') with each entry's mtime: sequence of <<mtime, name>>
    alist,      \* argument 'alist' of group_by_mtime
    gap,        \* argument 'gap' of group_by_mtime
    grps,       \* result of group_by_mtime
    idx,        \* main: zero-based index of the group being assembled
    fpaths,     \* assemble_movie: argument 'fpaths'
    mname,      \* assemble_movie: argument 'name'
    full_files, \* assemble_movie: the filtered paths prefixed with the cwd
    tmp,        \* sequential_links: id of the staging directory (0: none)
    ntmp,       \* number of staging directories created so far
    tmpdirs,    \* ids of the staging directories that exist on disk
    links,      \* sequential_links: the 'ln -s' calls made for the current group
    encoder,    \* log of the ffmpeg invocations
    ret,        \* assemble_movie: the value returned (-1: none yet)
    events,     \* log of what happened to each assemble_movie call
    exitcode    \* exit status of the process (-1 while it runs)

vars == <<pyver, entry, pc, dirlist, alist, gap, grps, idx, fpaths, mname,
          full_files, tmp, ntmp, tmpdirs, links, encoder, ret, events, exitcode>>

-----------------------------------------------------------------------------
(* Bounds of the model *)

MaxFiles == 3       \* longest list of files / directory listing
MaxTick == 6        \* largest timestamp drawn for the grouper, in ticks
MaxThreshold == 2   \* largest threshold drawn for the grouper, in seconds
MaxRc == 1          \* largest exit status an external utility returns
MaxGroups == 10     \* number of groups of the directory with many groups

(* Program constants *)

MAX_GAP == 30
FFMPEG_RATE == 4
InputWidth == 6
OutputWidth == 3

\* Resolution of the modelled timestamps: ticks per second.  A hundredth of
\* a second holds the timestamps of the documented example and gives
\* fractions below, at and above the half that round() decides.
TicksPerSecond == 100

-----------------------------------------------------------------------------
(* Generic helpers *)

Min(a, b) == IF a < b THEN a ELSE b
Max(a, b) == IF a > b THEN a ELSE b

\* All sequences over S of length at most n.
SeqsUpTo(S, n) == UNION {[1..k -> S] : k \in 0..n}

RECURSIVE Flatten(_)
\* Concatenation of a sequence of sequences (a nested comprehension).
Flatten(ss) == IF ss = <<>> THEN <<>> ELSE Head(ss) \o Flatten(Tail(ss))

\* Python's x[-n:] : the last n elements, or all of x when it is shorter.
LastN(x, n) == SubSeq(x, Max(1, Len(x) - n + 1), Len(x))

Range(s) == {s[i] : i \in 1..Len(s)}

\* The lists holding the items of s in another order.
PermutationsOf(s) ==
    { [i \in 1..Len(s) |-> s[f[i]]] :
        f \in { h \in [1..Len(s) -> 1..Len(s)] :
                  \A i, j \in 1..Len(s) : i # j => h[i] # h[j] } }

-----------------------------------------------------------------------------
(* compute_gap *)

\* Faulty variant: the fraction is cut off, as int() does.
Round_truncating(d, ver) == d \div TicksPerSecond

\* round(x) of the interpreter for x = d / TicksPerSecond >= 0: Python 3
\* rounds a tie to the even integer, Python 2 rounds it away from zero.
Round(d, ver) ==
    LET q == d \div TicksPerSecond
        r == d % TicksPerSecond
    IN  IF 2 * r < TicksPerSecond THEN q
        ELSE IF 2 * r > TicksPerSecond THEN q + 1
        ELSE IF ver = 3 THEN (IF q % 2 = 0 THEN q ELSE q + 1)
        ELSE q + 1

compute_gap(time0, time1, ver) ==
    LET tdelta == IF time1 >= time0 THEN time1 - time0 ELSE time0 - time1
    IN  Round(tdelta, ver)

-----------------------------------------------------------------------------
(* group_by_mtime *)

RECURSIVE InsertByKey(_, _)
\* Insert item x into the sorted sequence s after every element whose key
\* is not greater: the insertion step of a stable sort.
InsertByKey(s, x) ==
    IF s = <<>> THEN <<x>>
    ELSE IF Head(s)[1] <= x[1] THEN <<Head(s)>> \o InsertByKey(Tail(s), x)
    ELSE <<x>> \o s

RECURSIVE StableSort(_)
StableSort(s) ==
    IF s = <<>> THEN <<>>
    ELSE InsertByKey(StableSort(SubSeq(s, 1, Len(s) - 1)), s[Len(s)])

\* Faulty variant: the list is scanned in the order given.
sorted_unsorted(a) == a

\* sorted(alist, key=lambda x: x[0])
sorted(a) == StableSort(a)

\* Faulty variant: the gap is measured from the first item of the group.
starts_new_group_first(lastgroup, nextitem, g, ver) ==
    compute_gap(lastgroup[1][1], nextitem[1], ver) >= g

\* Faulty variant: the comparison is strict.
starts_new_group_strict(lastgroup, nextitem, g, ver) ==
    compute_gap(lastgroup[Len(lastgroup)][1], nextitem[1], ver) > g

\* The test that closes the current group: the gap from the last item of
\* the last group to the next item is at least 'gap'.
starts_new_group(lastgroup, nextitem, g, ver) ==
    LET lastitem == lastgroup[Len(lastgroup)]
    IN  compute_gap(lastitem[1], nextitem[1], ver) >= g

\* Faulty variant: a new group replaces the groups made so far.
group_step_forgetting(outlist, nextitem, g, ver) ==
    IF Len(outlist) = 0 THEN <<(<<nextitem>>)>>
    ELSE LET lastgroup == outlist[Len(outlist)]
         IN  IF starts_new_group(lastgroup, nextitem, g, ver)
             THEN <<(<<nextitem>>)>>
             ELSE [outlist EXCEPT ![Len(outlist)] = Append(lastgroup, nextitem)]

\* One iteration of the for loop over the sorted list.
group_step(outlist, nextitem, g, ver) ==
    IF Len(outlist) = 0 THEN <<(<<nextitem>>)>>
    ELSE LET lastgroup == outlist[Len(outlist)]
         IN  IF starts_new_group(lastgroup, nextitem, g, ver)
             THEN outlist \o <<(<<nextitem>>)>>
             ELSE [outlist EXCEPT ![Len(outlist)] = Append(lastgroup, nextitem)]

RECURSIVE group_scan(_, _, _, _)
group_scan(outlist, rest, g, ver) ==
    IF rest = <<>> THEN outlist
    ELSE group_scan(group_step(outlist, Head(rest), g, ver), Tail(rest), g, ver)

\* Faulty variant: the scan runs over the pairs of neighbours, so that a list
\* of fewer than two items yields nothing.
group_by_mtime_pairs(a, g, ver) ==
    IF Len(a) < 2 THEN <<>> ELSE group_scan(<<>>, StableSort(a), g, ver)

group_by_mtime(a, g, ver) == group_scan(<<>>, sorted(a), g, ver)

-----------------------------------------------------------------------------
(* File names, INPUT_PAT, get_files *)

Jpg == <<"j", "p", "g">>
DotJpg == <<".", "j", "p", "g">>

\* The directory entries the model draws from: two images, an entry whose
\* name ends in a newline after ".jpg", and a file that is no image.
FileNames ==
    { <<"a">> \o DotJpg, <<"b">> \o DotJpg, <<"c">> \o DotJpg \o <<"\n">>,
      <<"d", ".", "p", "n", "g">> }

\* The paths the model passes to assemble_movie when it is called directly.
PathNames == FileNames \cup {Jpg}

NoNewline(s) == \A i \in 1..Len(s) : s[i] # "\n"

\* INPUT_PAT.match(f) for INPUT_PAT = re.compile(r'.+\.jpg$'): match anchors
\* at the start, '.' matches any character but a newline, and '$' matches at
\* the end of the string and just before a newline that ends the string.
INPUT_PAT_match(f) ==
    \E e \in {Len(f) - 1, Len(f)} :
        /\ e = Len(f) \/ f[Len(f)] = "\n"
        /\ e >= 5
        /\ SubSeq(f, e - 3, e) = DotJpg
        /\ NoNewline(SubSeq(f, 1, e - 4))

\* Faulty variant: every directory entry is taken.
get_files_all(d) == d

\* get_files over the directory listing d: the entries matching INPUT_PAT,
\* each with its modification time, in the order of os.listdir.
get_files(d) == SelectSeq(d, LAMBDA x : INPUT_PAT_match(x[2]))

-----------------------------------------------------------------------------
(* Formatting *)

Digits == <<"0", "1", "2", "3", "4", "5", "6", "7", "8", "9">>

RECURSIVE Decimal(_)
Decimal(n) == IF n < 10 THEN <<Digits[n + 1]>>
              ELSE Decimal(n \div 10) \o <<Digits[(n % 10) + 1]>>

RECURSIVE PadLeft(_, _)
PadLeft(s, w) == IF Len(s) >= w THEN s ELSE PadLeft(<<"0">> \o s, w)

\* "{:0<w>d}".format(n) for n >= 0
ZeroPad(n, w) == PadLeft(Decimal(n), w)

\* Faulty variant: the links are numbered from one.
link_name_from_one(i) == <<"/">> \o ZeroPad(i + 1, InputWidth) \o DotJpg

\* "/{0:06d}.jpg".format(i): the name of the i-th link inside the staging dir
link_name(i) == <<"/">> \o ZeroPad(i, InputWidth) \o DotJpg

\* Faulty variant: the movies are numbered from one.
movie_name_from_one(i) ==
    <<"m", "o", "v", "i", "e", "_">> \o ZeroPad(i + 1, OutputWidth)

\* ("movie_{:03d}").format(i)
movie_name(i) == <<"m", "o", "v", "i", "e", "_">> \o ZeroPad(i, OutputWidth)

\* os.getcwd()
Cwd == <<"/", "w">>

-----------------------------------------------------------------------------
(* assemble_movie: the filter *)

\* Faulty variant: the flags are kept with the files.
keeps_all(x) == TRUE

\* x[-3:] == "jpg"
keeps(x) == LastN(x, 3) = Jpg

\* in_files: the pairs ["-i", f] flattened, filtered by the last three
\* characters.
in_files_of(fp) ==
    SelectSeq(Flatten([i \in 1..Len(fp) |-> << <<"-", "i">>, fp[i] >>]), keeps)

\* full_files
full_files_of(inf) == [i \in 1..Len(inf) |-> Cwd \o <<"/">> \o inf[i]]

\* Exit statuses of the external utilities.
RetCodes == 0..MaxRc

-----------------------------------------------------------------------------
(* Initial states *)

\* Timestamps of the lists handed to the grouper: quarters of a second.
Times == {k * (TicksPerSecond \div 4) : k \in 0..MaxTick}

\* Thresholds handed to the grouper, in seconds.
Thresholds == 0..MaxThreshold

\* Items of the lists handed to the grouper: (mtime, filepath).
Items == Times \X { <<"a">> \o DotJpg, <<"b">> \o DotJpg }

\* Modification times of the directory entries of a run of main: multiples
\* of half of MAX_GAP, so that neighbours are within the gap and entries one
\* step further apart are not.
MTimes ==
    { (k * MAX_GAP * TicksPerSecond) \div 2 : k \in {0, 1, 3, 5} }

\* Directory listings: every name at most once.
Listings ==
    { d \in SeqsUpTo(MTimes \X FileNames, MaxFiles) :
        \A i, j \in 1..Len(d) : i # j => d[i][2] # d[j][2] }

\* The state shared by every entry point before anything has run.
Fresh ==
    /\ pyver \in {2, 3}
    /\ grps = <<>>
    /\ idx = 0
    /\ full_files = <<>>
    /\ tmp = 0
    /\ ntmp = 0
    /\ tmpdirs = {}
    /\ links = <<>>
    /\ encoder = <<>>
    /\ ret = -1
    /\ events = <<>>
    /\ exitcode = -1

\* A call of group_by_mtime(alist, gap).
InitGroup ==
    /\ Fresh
    /\ entry = "group_by_mtime"
    /\ pc = "group_by_mtime"
    /\ dirlist = <<>>
    /\ alist \in SeqsUpTo(Items, MaxFiles)
    /\ gap \in Thresholds
    /\ fpaths = <<>>
    /\ mname = <<>>

\* Items of the lists whose every permutation is grouped: timestamps at
\* halves of a second.
PermItems ==
    {k * (TicksPerSecond \div 2) : k \in 0..(MaxTick \div 2)}
        \X { <<"a">> \o DotJpg, <<"b">> \o DotJpg }

\* A call of group_by_mtime(alist, gap) on a list over PermItems.
InitPerm ==
    /\ Fresh
    /\ entry = "group_by_mtime"
    /\ pc = "group_by_mtime"
    /\ dirlist = <<>>
    /\ alist \in SeqsUpTo(PermItems, MaxFiles)
    /\ gap \in Thresholds
    /\ fpaths = <<>>
    /\ mname = <<>>

\* The name hummingbird<digits>.jpg of a file of the documented example.
Hummingbird(digits) ==
    <<"h", "u", "m", "m", "i", "n", "g", "b", "i", "r", "d",
      "2", "0", "1", "6", "0", "5", "0", "9", "0", "9">> \o digits \o DotJpg

\* The five files of the documented example, in the order of their
\* names: their modification times, in ticks after the first, are 0, 0.19,
\* 0.50, 15.59 and 102.0 seconds.
ExampleFiles ==
    << <<0, Hummingbird(<<"5", "7", "5", "3", "0", "1">>)>>,
       <<(19 * TicksPerSecond) \div 100, Hummingbird(<<"5", "7", "5", "3", "0", "2">>)>>,
       <<(50 * TicksPerSecond) \div 100, Hummingbird(<<"5", "7", "5", "3", "0", "3">>)>>,
       <<(1559 * TicksPerSecond) \div 100, Hummingbird(<<"5", "8", "0", "8", "0", "4">>)>>,
       <<102 * TicksPerSecond, Hummingbird(<<"5", "9", "3", "5", "0", "1">>)>> >>

\* A call of group_by_mtime on the documented example, listed in any order,
\* with the threshold MAX_GAP.
InitExample ==
    /\ Fresh
    /\ entry = "group_by_mtime"
    /\ pc = "group_by_mtime"
    /\ dirlist = <<>>
    /\ alist \in PermutationsOf(ExampleFiles)
    /\ gap = MAX_GAP
    /\ fpaths = <<>>
    /\ mname = <<>>

\* A run of the script in the directory of the documented example.
InitExampleMain ==
    /\ Fresh
    /\ entry = "main"
    /\ pc = "main"
    /\ dirlist \in PermutationsOf(ExampleFiles)
    /\ alist = <<>>
    /\ gap = MAX_GAP
    /\ fpaths = <<>>
    /\ mname = <<>>

\* A directory of MaxGroups entries, MAX_GAP apart from each other, whose
\* names match INPUT_PAT; the entries at the places imgs (from zero) are
\* images and the names of the others end in a newline.
ManyGroups(imgs) ==
    [k \in 1..MaxGroups |->
        << (k - 1) * MAX_GAP * TicksPerSecond,
           Decimal(k - 1) \o DotJpg \o (IF k - 1 \in imgs THEN <<>> ELSE <<"\n">>) >>]

\* A run of the script in a directory of MaxGroups groups, one or two of
\* them holding an image.
InitMany ==
    /\ Fresh
    /\ entry = "main"
    /\ pc = "main"
    /\ \E i, j \in 0..(MaxGroups - 1) : dirlist = ManyGroups({i, j})
    /\ alist = <<>>
    /\ gap = MAX_GAP
    /\ fpaths = <<>>
    /\ mname = <<>>

\* A call of assemble_movie(fpaths, name).
InitAssemble ==
    /\ Fresh
    /\ entry = "assemble_movie"
    /\ pc = "assemble_movie"
    /\ dirlist = <<>>
    /\ alist = <<>>
    /\ gap = MAX_GAP
    /\ fpaths \in SeqsUpTo(PathNames, MaxFiles)
    /\ mname = movie_name(0)

\* A run of the script in a directory.
Init ==
    /\ Fresh
    /\ entry = "main"
    /\ pc = "main"
    /\ dirlist \in Listings
    /\ alist = <<>>
    /\ gap = MAX_GAP
    /\ fpaths = <<>>
    /\ mname = <<>>

-----------------------------------------------------------------------------
(* Actions *)

Event(kind, rc) == [grp |-> idx, kind |-> kind, rc |-> rc]

\* group_by_mtime called on its own.
Group ==
    /\ pc = "group_by_mtime"
    /\ entry = "group_by_mtime"
    /\ grps' = group_by_mtime(alist, gap, pyver)
    /\ pc' = "grouped"
    /\ UNCHANGED <<pyver, entry, dirlist, alist, gap, idx, fpaths, mname,
                   full_files, tmp, ntmp, tmpdirs, links, encoder, ret,
                   events, exitcode>>

\* main: grps = group_by_mtime(get_files(), MAX_GAP)
MainGroup ==
    /\ pc = "main"
    /\ alist' = get_files(dirlist)
    /\ gap' = MAX_GAP
    /\ grps' = group_by_mtime(alist', MAX_GAP, pyver)
    /\ idx' = 0
    /\ pc' = "loop"
    /\ UNCHANGED <<pyver, entry, dirlist, fpaths, mname, full_files, tmp,
                   ntmp, tmpdirs, links, encoder, ret, events, exitcode>>

\* Faulty variant: the loop stops at the first group that failed.
loop_continues_until_failure(i, n, r) == i < n /\ (i = 0 \/ r = 0)

\* Whether the for loop of main has another group: enumerate() runs over all
\* of grps whatever the previous call returned.
loop_continues(i, n, r) == i < n

\* main: the next iteration of the loop calls assemble_movie, whose locals
\* start afresh.
MainCall ==
    /\ pc = "loop"
    /\ loop_continues(idx, Len(grps), ret)
    /\ fpaths' = [k \in 1..Len(grps[idx + 1]) |-> grps[idx + 1][k][2]]
    /\ mname' = movie_name(idx)
    /\ events' = Append(events, Event("call", 0))
    /\ full_files' = <<>>
    /\ links' = <<>>
    /\ tmp' = 0
    /\ ret' = -1
    /\ pc' = "assemble_movie"
    /\ UNCHANGED <<pyver, entry, dirlist, alist, gap, grps, idx, ntmp,
                   tmpdirs, encoder, exitcode>>

\* Faulty variant: the script fails when a call reported a non-zero code.
exit_status_aggregated(ev) ==
    IF \E n \in 1..Len(ev) : ev[n].kind = "rc" /\ ev[n].rc # 0 THEN 1 ELSE 0

\* The exit status of a script whose main returns: the codes printed during
\* the run play no part in it.
exit_status(ev) == 0

\* main: the loop is exhausted, the script ends.
MainDone ==
    /\ pc = "loop"
    /\ ~loop_continues(idx, Len(grps), ret)
    /\ pc' = "done"
    /\ exitcode' = exit_status(events)
    /\ UNCHANGED <<pyver, entry, dirlist, alist, gap, grps, idx, fpaths,
                   mname, full_files, tmp, ntmp, tmpdirs, links, encoder, ret,
                   events>>

\* main: assemble_movie has returned; print the code, go to the next group.
MainReport ==
    /\ pc = "return"
    /\ entry = "main"
    /\ events' = Append(events, Event("rc", ret))
    /\ idx' = idx + 1
    /\ pc' = "loop"
    /\ UNCHANGED <<pyver, entry, dirlist, alist, gap, grps, fpaths, mname,
                   full_files, tmp, ntmp, tmpdirs, links, encoder, ret,
                   exitcode>>

\* Faulty variant: an empty list is staged like any other.
no_images_never(inf) == FALSE

\* len(in_files) == 0
no_images(inf) == Len(inf) = 0

\* assemble_movie: filter the paths; abort when none is left.
Filter ==
    /\ pc = "assemble_movie"
    /\ LET in_files == in_files_of(fpaths)
       IN  IF no_images(in_files)
           THEN /\ ret' = 1
                /\ events' = Append(events, Event("no_images", 1))
                /\ pc' = "return"
                /\ UNCHANGED full_files
           ELSE /\ full_files' = full_files_of(in_files)
                /\ pc' = "mktemp"
                /\ UNCHANGED <<ret, events>>
    /\ UNCHANGED <<pyver, entry, dirlist, alist, gap, grps, idx, fpaths,
                   mname, tmp, ntmp, tmpdirs, links, encoder, exitcode>>

\* sequential_links: mktemp -d; a non-zero status ends the process.
Mktemp ==
    /\ pc = "mktemp"
    /\ \E rc \in RetCodes :
        IF rc = 0
        THEN /\ ntmp' = ntmp + 1
             /\ tmp' = ntmp + 1
             /\ tmpdirs' = tmpdirs \cup {ntmp + 1}
             /\ links' = <<>>
             /\ pc' = "link"
             /\ UNCHANGED <<events, exitcode>>
        ELSE /\ events' = Append(events, Event("mktemp_failed", rc))
             /\ exitcode' = 1
             /\ pc' = "exited"
             /\ UNCHANGED <<ntmp, tmp, tmpdirs, links>>
    /\ UNCHANGED <<pyver, entry, dirlist, alist, gap, grps, idx, fpaths,
                   mname, full_files, encoder, ret>>

\* Faulty variant: the status of ln is checked and a failure ends the
\* process.
after_ln_checked(rc) == IF rc = 0 THEN "link" ELSE "exited"

\* Where control goes after subprocess.call(["ln", ...]) returned rc: call
\* returns the status, it raises nothing, and the status is dropped.
after_ln(rc) == "link"

\* sequential_links: one iteration of the loop over fpaths.
Link ==
    /\ pc = "link"
    /\ Len(links) < Len(full_files)
    /\ \E rc \in RetCodes :
        /\ links' = Append(links, [link |-> link_name(Len(links)),
                                   target |-> full_files[Len(links) + 1],
                                   rc |-> rc])
        /\ pc' = after_ln(rc)
        /\ exitcode' = IF pc' = "exited" THEN 1 ELSE exitcode
    /\ UNCHANGED <<pyver, entry, dirlist, alist, gap, grps, idx, fpaths,
                   mname, full_files, tmp, ntmp, tmpdirs, encoder, ret,
                   events>>

\* sequential_links: ls -l of the staging directory through check_output; a
\* non-zero status raises CalledProcessError, which nothing catches.
ListLinks ==
    /\ pc = "link"
    /\ Len(links) = Len(full_files)
    /\ \E rc \in RetCodes :
        IF rc = 0
        THEN /\ pc' = "ffmpeg"
             /\ UNCHANGED <<events, exitcode>>
        ELSE /\ events' = Append(events, Event("ls_failed", rc))
             /\ exitcode' = 1
             /\ pc' = "crashed"
    /\ UNCHANGED <<pyver, entry, dirlist, alist, gap, grps, idx, fpaths,
                   mname, full_files, tmp, ntmp, tmpdirs, links, encoder, ret>>

\* assemble_movie: the body of the with statement runs ffmpeg.
Ffmpeg ==
    /\ pc = "ffmpeg"
    /\ \E rc \in RetCodes :
        /\ ret' = rc
        /\ encoder' = Append(encoder, [grp |-> idx, tmp |-> tmp,
                                       links |-> links, rate |-> FFMPEG_RATE,
                                       out |-> mname \o <<".", "m", "p", "4">>,
                                       rc |-> rc])
    /\ pc' = "cleanup"
    /\ UNCHANGED <<pyver, entry, dirlist, alist, gap, grps, idx, fpaths,
                   mname, full_files, tmp, ntmp, tmpdirs, links, events,
                   exitcode>>

\* Faulty variant: the directory is removed only after a successful encoding.
removed_on_success(dirs, t, r) == IF r = 0 THEN dirs \ {t} ELSE dirs

\* The staging directories left after rm -rf of t.
removed(dirs, t, r) == dirs \ {t}

\* Faulty variant: the status of the cleanup is returned.
returned_from_cleanup(r) == 0

\* The value assemble_movie returns after the with statement: ret as ffmpeg
\* set it.
returned(r) == r

\* sequential_links after the yield: rm -rf; then assemble_movie returns.
Cleanup ==
    /\ pc = "cleanup"
    /\ tmpdirs' = removed(tmpdirs, tmp, ret)
    /\ ret' = returned(ret)
    /\ pc' = "return"
    /\ UNCHANGED <<pyver, entry, dirlist, alist, gap, grps, idx, fpaths,
                   mname, full_files, tmp, ntmp, links, encoder, events,
                   exitcode>>

-----------------------------------------------------------------------------
(* Specifications *)

Assemble == Filter \/ Mktemp \/ Link \/ ListLinks \/ Ffmpeg \/ Cleanup

NextGroup == Group

NextAssemble == Assemble

Next == MainGroup \/ MainCall \/ MainDone \/ MainReport \/ Assemble

\* group_by_mtime on every bounded input.
SpecGroup == InitGroup /\ [][NextGroup]_vars

\* group_by_mtime on the bounded inputs that are compared with all their
\* permutations.
SpecPerm == InitPerm /\ [][NextGroup]_vars

\* group_by_mtime on the documented example.
SpecExample == InitExample /\ [][NextGroup]_vars

\* The script run on the documented example.
SpecExampleMain == InitExampleMain /\ [][Next]_vars

\* The script run in the directories of MaxGroups groups.
SpecMany == InitMany /\ [][Next]_vars

\* assemble_movie on every bounded input.
SpecAssemble == InitAssemble /\ [][NextAssemble]_vars

\* The script run in every bounded directory.
Spec == Init /\ [][Next]_vars

-----------------------------------------------------------------------------
(* Properties of group_by_mtime, under SpecGroup *)

\* The items of s whose timestamp is t, in the order of s.
AtTime(s, t) == SelectSeq(s, LAMBDA x : x[1] = t)

\* s is in ascending order of timestamp.
Ascending(s) == \A i \in 1..(Len(s) - 1) : s[i][1] <= s[i + 1][1]

\* out is s stably sorted by timestamp: ascending, and for every timestamp
\* the items carrying it are those of s in the order of s.
IsStableSortOf(out, s) ==
    /\ Len(out) = Len(s)
    /\ Ascending(out)
    /\ \A t \in {s[i][1] : i \in 1..Len(s)} \cup {out[i][1] : i \in 1..Len(out)} :
           AtTime(out, t) = AtTime(s, t)

\* C1: the groups returned by group_by_mtime, concatenated in output order,
\* are the input list stably sorted by timestamp (so every input item is in
\* exactly one group); every group is non-empty and ascending; the groups
\* come in ascending time order.
C1_GroupsPartitionSortedInput ==
    pc = "grouped" =>
        /\ IsStableSortOf(Flatten(grps), alist)
        /\ \A g \in 1..Len(grps) : Len(grps[g]) > 0 /\ Ascending(grps[g])
        /\ \A g \in 1..(Len(grps) - 1) :
               grps[g][Len(grps[g])][1] <= grps[g + 1][1][1]

\* An unsorted input holding a tie was split into at least two groups, one
\* of them with several items.
C1_Witness ==
    /\ pc = "grouped"
    /\ Len(grps) >= 2
    /\ \E g \in 1..Len(grps) : Len(grps[g]) >= 2
    /\ \E i \in 1..(Len(alist) - 1) : alist[i][1] > alist[i + 1][1]
    /\ \E i, j \in 1..Len(alist) : i # j /\ alist[i][1] = alist[j][1]

\* C2: inside every group, the gap between adjacent items, as compute_gap
\* computes it, is strictly less than the threshold.
C2_GapInsideGroupBelowThreshold ==
    pc = "grouped" =>
        \A g \in 1..Len(grps) : \A k \in 1..(Len(grps[g]) - 1) :
            compute_gap(grps[g][k][1], grps[g][k + 1][1], pyver) < gap

\* A group holds adjacent items whose gap is the largest one allowed.
C2_Witness ==
    /\ pc = "grouped"
    /\ gap >= 2
    /\ \E g \in 1..Len(grps) : \E k \in 1..(Len(grps[g]) - 1) :
           compute_gap(grps[g][k][1], grps[g][k + 1][1], pyver) = gap - 1

\* C3: between consecutive groups, the gap from the last item of the first
\* to the first item of the second is at least the threshold.
C3_GapBetweenGroupsAtLeastThreshold ==
    pc = "grouped" =>
        \A g \in 1..(Len(grps) - 1) :
            compute_gap(grps[g][Len(grps[g])][1], grps[g + 1][1][1], pyver) >= gap

\* Two groups are split at a gap of exactly the threshold, the first of
\* them holding several items at different times.
C3_Witness ==
    /\ pc = "grouped"
    /\ gap >= 1
    /\ \E g \in 1..(Len(grps) - 1) :
           /\ Len(grps[g]) >= 2
           /\ grps[g][1][1] < grps[g][Len(grps[g])][1]
           /\ compute_gap(grps[g][Len(grps[g])][1], grps[g + 1][1][1], pyver) = gap

-----------------------------------------------------------------------------
(* Properties of assemble_movie, under SpecAssemble *)

\* assemble_movie is over: it returned, or the process ended inside it.
Finished == pc \in {"return", "exited", "crashed"}

\* C4: when assemble_movie finishes after the encoder was invoked, the
\* staging directory the encoder read is deleted, whatever status the
\* encoder returned.
C4_StagingDeletedAfterEncoder ==
    Finished => \A i \in 1..Len(encoder) : encoder[i].tmp \notin tmpdirs

\* assemble_movie returned after a failed encoding and the one staging
\* directory that was created is gone.
C4_Witness ==
    /\ pc = "return"
    /\ ntmp = 1
    /\ Len(encoder) = 1
    /\ encoder[1].rc # 0
    /\ encoder[1].tmp = 1
    /\ tmpdirs = {}

\* C5: when assembly ends with a fatal error before the encoder is invoked,
\* no staging directory is left behind.
C5_NoStagingLeftAfterFatalError ==
    (pc \in {"exited", "crashed"} /\ encoder = <<>>) => tmpdirs = {}

\* C6: the encoder is never invoked for a group in which a link creation
\* failed.
C6_NoEncoderAfterLinkFailure ==
    \A i \in 1..Len(encoder) :
        \A k \in 1..Len(encoder[i].links) : encoder[i].links[k].rc = 0

\* C9: when assemble_movie invoked the encoder, the value it returns is the
\* encoder's exit status.
C9_ReturnIsEncoderStatus ==
    (pc = "return" /\ encoder # <<>>) => ret = encoder[Len(encoder)].rc

\* assemble_movie returned the non-zero status of the encoder.
C9_Witness ==
    /\ pc = "return"
    /\ encoder # <<>>
    /\ encoder[1].rc # 0
    /\ ret = encoder[1].rc

\* Path p ends in the three characters of the image extension.
EndsInJpg(p) ==
    /\ Len(p) >= 3
    /\ p[Len(p) - 2] = "j"
    /\ p[Len(p) - 1] = "p"
    /\ p[Len(p)] = "g"

\* C10: if no path of the input ends in the image extension, assemble_movie
\* returns a non-zero code at once: no staging directory, no link, no
\* encoder.
C10_NoImagesFailsAtOnce ==
    ((\A i \in 1..Len(fpaths) : ~EndsInJpg(fpaths[i])) /\ pc # "assemble_movie") =>
        /\ pc = "return"
        /\ ret # 0
        /\ ntmp = 0
        /\ tmpdirs = {}
        /\ links = <<>>
        /\ encoder = <<>>

\* assemble_movie returned failure for a non-empty input without images.
C10_Witness ==
    /\ pc = "return"
    /\ Len(fpaths) >= 2
    /\ \A i \in 1..Len(fpaths) : ~EndsInJpg(fpaths[i])
    /\ ret = 1
    /\ ntmp = 0

-----------------------------------------------------------------------------
(* Properties of main, under Spec *)

\* The process is over.
Terminated == pc \in {"done", "exited", "crashed"}

\* assemble_movie was called for the group of index i.
Called(i) == \E n \in 1..Len(events) : events[n].kind = "call" /\ events[n].grp = i

\* Something of the given kind happened in the group of index i.
Happened(kind, i) ==
    \E n \in 1..Len(events) : events[n].kind = kind /\ events[n].grp = i

\* A link creation returned a non-zero status in the group of index i.
LinkFailed(i) ==
    \/ \E n \in 1..Len(encoder) :
           encoder[n].grp = i /\ \E k \in 1..Len(encoder[n].links) :
                                     encoder[n].links[k].rc # 0
    \/ idx = i /\ \E k \in 1..Len(links) : links[k].rc # 0

GroupIndexes == 0..(Len(grps) - 1)

\* C7 as stated: once the process is over, every group after one that hit a
\* fatal-to-group error has had its assembly started.
C7_FatalErrorAbortsOnlyItsGroup ==
    Terminated =>
        \A i \in GroupIndexes :
            (Happened("no_images", i) \/ Happened("mktemp_failed", i) \/ LinkFailed(i)) =>
                \A j \in GroupIndexes : j > i => Called(j)

\* C7 amended: a group without images aborts only its own assembly, the
\* next group is still started; a failure to create the staging directory
\* ends the process with status 1 and no later group is started.
C7_NoImagesContinuesMktempFailureExits ==
    \A i \in GroupIndexes :
        /\ (Terminated /\ Happened("no_images", i) /\ i + 1 < Len(grps)) => Called(i + 1)
        /\ Happened("mktemp_failed", i) =>
               /\ pc = "exited"
               /\ exitcode = 1
               /\ \A j \in GroupIndexes : j > i => ~Called(j)

\* The first group had no image, the staging directory of the second could
\* not be created, and a third group was waiting.
C7_Witness ==
    /\ Len(grps) >= 3
    /\ Happened("no_images", 0)
    /\ Called(1)
    /\ Happened("mktemp_failed", 1)
    /\ pc = "exited"

\* C8: a non-zero status of the encoder for a group does not end the run:
\* the status is reported and the next group, if any, is assembled.
C8_EncoderFailureDoesNotAbort ==
    \A n \in 1..Len(encoder) :
        encoder[n].rc # 0 =>
            /\ pc \in {"exited", "crashed"} => idx > encoder[n].grp
            /\ Terminated =>
                   /\ \E m \in 1..Len(events) :
                          events[m] = [grp |-> encoder[n].grp, kind |-> "rc",
                                       rc |-> encoder[n].rc]
                   /\ (encoder[n].grp + 1 < Len(grps)) => Called(encoder[n].grp + 1)

\* The encoder failed for the first group and ran for the second one.
C8_Witness ==
    /\ pc = "done"
    /\ Len(encoder) >= 2
    /\ encoder[1].grp = 0
    /\ encoder[1].rc # 0
    /\ encoder[2].grp = 1

-----------------------------------------------------------------------------
(* Further properties of group_by_mtime, under SpecGroup and SpecPerm *)

\* The timestamps of s are pairwise distinct.
DistinctTimes(s) == \A i, j \in 1..Len(s) : i # j => s[i][1] # s[j][1]

\* o1 and o2 have the same number of groups and each group of o1 holds the
\* items of the group of o2 at the same place.
SameGroupsAsSets(o1, o2) ==
    /\ Len(o1) = Len(o2)
    /\ \A g \in 1..Len(o1) : Range(o1[g]) = Range(o2[g])

\* C11 as stated: the result does not depend on the order of the input:
\* every permutation of the input gives the same groups as sets of items,
\* and the identical output when the timestamps are pairwise distinct.
C11_GroupingIgnoresInputOrder ==
    pc = "grouped" =>
        \A q \in PermutationsOf(alist) :
            LET o == group_by_mtime(q, gap, pyver)
            IN  /\ SameGroupsAsSets(o, grps)
                /\ DistinctTimes(alist) => o = grps

\* C11 amended: every permutation of an input with pairwise distinct
\* timestamps gives the identical output; when timestamps coincide and the
\* threshold is greater than zero, it gives the same groups as sets of
\* items.
C11_GroupingIgnoresInputOrderForPositiveThreshold ==
    pc = "grouped" =>
        \A q \in PermutationsOf(alist) :
            LET o == group_by_mtime(q, gap, pyver)
            IN  /\ gap > 0 => SameGroupsAsSets(o, grps)
                /\ DistinctTimes(alist) => o = grps

\* An unsorted input holding a tie was split into two groups under a
\* positive threshold, and another order of it gives another output.
C11_Witness ==
    /\ pc = "grouped"
    /\ gap > 0
    /\ Len(grps) = 2
    /\ \E i \in 1..(Len(alist) - 1) : alist[i][1] > alist[i + 1][1]
    /\ \E q \in PermutationsOf(alist) : group_by_mtime(q, gap, pyver) # grps

\* Every two items with equal timestamps are in the same group.
TiesShareGroup ==
    \A g1, g2 \in 1..Len(grps) :
        g1 # g2 =>
            \A k1 \in 1..Len(grps[g1]) : \A k2 \in 1..Len(grps[g2]) :
                grps[g1][k1][1] # grps[g2][k2][1]

\* C12 as stated: items with equal timestamps are in the same group, for
\* every input and every threshold.
C12_TiesAlwaysMerge == pc = "grouped" => TiesShareGroup

\* C12 amended: items with equal timestamps are in the same group, for every
\* input and every threshold greater than zero.
C12_TiesMergeForPositiveThreshold ==
    (pc = "grouped" /\ gap > 0) => TiesShareGroup

\* An input holding two items with the same timestamp, given out of order,
\* was split into several groups under a positive threshold.
C12_Witness ==
    /\ pc = "grouped"
    /\ gap > 0
    /\ Len(grps) >= 2
    /\ \E i, j \in 1..Len(alist) :
           j > i + 1 /\ alist[i][1] = alist[j][1] /\ alist[i][2] # alist[j][2]

\* C16: an empty input gives no group, and an input of one item gives one
\* group holding that item, for every threshold.
C16_EmptyAndSingleInput ==
    pc = "grouped" =>
        /\ Len(alist) = 0 => grps = <<>>
        /\ Len(alist) = 1 => grps = << <<alist[1]>> >>

\* A single item was grouped under the threshold zero.
C16_Witness ==
    /\ pc = "grouped"
    /\ Len(alist) = 1
    /\ gap = 0
    /\ Len(grps) = 1
    /\ grps[1] = alist

\* The index of the group that holds the item at place n of the
\* concatenated groups.
GroupOfPlace(n) ==
    CHOOSE g \in 1..Len(grps) :
        LET before == Len(Flatten(SubSeq(grps, 1, g - 1)))
        IN  before < n /\ n <= before + Len(grps[g])

\* C19: the split point is half a second below the threshold: neighbours of
\* the time-sorted list whose true gap d is below threshold - 0.5 share a
\* group, and neighbours whose true gap is above threshold - 0.5 do not,
\* even when d is below the threshold.
C19_SplitPointIsHalfBelowThreshold ==
    pc = "grouped" =>
        LET flat == Flatten(grps)
        IN  \A n \in 1..(Len(flat) - 1) :
                LET d == flat[n + 1][1] - flat[n][1]
                IN  /\ 2 * d < (2 * gap - 1) * TicksPerSecond =>
                           GroupOfPlace(n) = GroupOfPlace(n + 1)
                    /\ 2 * d > (2 * gap - 1) * TicksPerSecond =>
                           GroupOfPlace(n) # GroupOfPlace(n + 1)

\* Two neighbours whose true gap is below the threshold and above the
\* threshold less a half were split.
C19_Witness ==
    /\ pc = "grouped"
    /\ LET flat == Flatten(grps)
       IN  \E n \in 1..(Len(flat) - 1) :
               LET d == flat[n + 1][1] - flat[n][1]
               IN  /\ d < gap * TicksPerSecond
                   /\ 2 * d > (2 * gap - 1) * TicksPerSecond
                   /\ GroupOfPlace(n) # GroupOfPlace(n + 1)

-----------------------------------------------------------------------------
(* Staging names, under SpecAssemble *)

\* The decimal digits of k < 1000000, six of them.
SixDigits(k) ==
    << Digits[((k \div 100000) % 10) + 1], Digits[((k \div 10000) % 10) + 1],
       Digits[((k \div 1000) % 10) + 1], Digits[((k \div 100) % 10) + 1],
       Digits[((k \div 10) % 10) + 1], Digits[(k % 10) + 1] >>

\* C14: the k-th file (from zero) of the filtered input is linked under the
\* name k padded with zeros to six digits plus ".jpg"; the indices used
\* are 0..n-1 in the order of the input, and the encoder is given all n.
C14_LinksNamedBySequentialIndex ==
    LET kept == SelectSeq(fpaths, EndsInJpg)
    IN  /\ Len(links) <= Len(kept)
        /\ \A k \in 1..Len(links) :
               /\ links[k].link = <<"/">> \o SixDigits(k - 1) \o <<".", "j", "p", "g">>
               /\ links[k].target = Cwd \o <<"/">> \o kept[k]
        /\ \A n \in 1..Len(encoder) :
               encoder[n].links = links /\ Len(links) = Len(kept)

\* The encoder ran over two links made for an input whose first path was
\* filtered out.
C14_Witness ==
    /\ pc = "return"
    /\ Len(fpaths) = 3
    /\ ~EndsInJpg(fpaths[1])
    /\ fpaths[2] # fpaths[3]
    /\ Len(encoder) = 1
    /\ Len(encoder[1].links) = 2

-----------------------------------------------------------------------------
(* Exit status and the files of a run, under Spec *)

RECURSIVE LinksTo(_, _)
LinksTo(f, n) ==
    IF n = 0 THEN 0
    ELSE LinksTo(f, n - 1)
         + Cardinality({k \in 1..Len(encoder[n].links) :
                           encoder[n].links[k].target = Cwd \o <<"/">> \o f})

\* C20: in a run without fatal abort the filter removes no discovered file:
\* the "no jpg files" abort is never taken, the links attempted for a group
\* are as many as its files, and every discovered file is the target of
\* exactly one link.
C20_EveryDiscoveredFileIsLinkedOnce ==
    pc = "done" =>
        /\ \A i \in GroupIndexes : ~Happened("no_images", i)
        /\ \A n \in 1..Len(encoder) :
               Len(encoder[n].links) = Len(grps[encoder[n].grp + 1])
        /\ \A i \in 1..Len(alist) : LinksTo(alist[i][2], Len(encoder)) = 1

-----------------------------------------------------------------------------
(* The documented example, under SpecExample and SpecExampleMain *)

\* C15: for the five files at 0, 0.19, 0.50, 15.59 and 102.0 seconds and
\* the threshold 30, group_by_mtime returns two groups: the first four files
\* together and the fifth alone.
C15_ExampleGivesTwoGroups ==
    pc = "grouped" =>
        grps = << SubSeq(ExampleFiles, 1, 4), SubSeq(ExampleFiles, 5, 5) >>

\* The example was grouped from a listing that was not in time order.
C15_Witness ==
    /\ pc = "grouped"
    /\ gap = 30
    /\ alist # ExampleFiles
    /\ Len(alist) = 5
    /\ Len(grps) = 2
    /\ Len(grps[1]) = 4

Mp4 == <<".", "m", "p", "4">>

\* C17: on the documented example the movie of the first group is
\* movie_001.mp4 and the movie of the second group is movie_002.mp4.
C17_ExampleMoviesNumberedFromOne ==
    \A n \in 1..Len(encoder) :
        /\ encoder[n].grp = 0 =>
               encoder[n].out = <<"m", "o", "v", "i", "e", "_", "0", "0", "1">> \o Mp4
        /\ encoder[n].grp = 1 =>
               encoder[n].out = <<"m", "o", "v", "i", "e", "_", "0", "0", "2">> \o Mp4

-----------------------------------------------------------------------------
(* The names of the movies, under SpecMany *)

\* The calls of assemble_movie made so far.
Calls == SelectSeq(events, LAMBDA e : e.kind = "call")

\* The decimal digits of i < 1000, three of them.
ThreeDigits(i) ==
    << Digits[((i \div 100) % 10) + 1], Digits[((i \div 10) % 10) + 1],
       Digits[(i % 10) + 1] >>

\* The name of the movie of the group of index i.
ExpectedMovie(i) == <<"m", "o", "v", "i", "e", "_">> \o ThreeDigits(i)

=============================================================================
